---- MODULE Spec2Model ----
(***************************************************************************)
(* Pan/orbit/zoom camera controller of bevy_dragging_testbed.              *)
(*                                                                         *)
(* src/src/camera.rs : PanOrbitCamera, accumulate_mouse_events_system,     *)
(*                     update_camera_system, get_primary_window_size       *)
(* src/src/main.rs   : main (schedule), setup (the camera that is spawned) *)
(*                                                                         *)
(* Numbers.  Every f32 of the source is a fixed-point integer counting     *)
(* 1/Scale: 1.0 is Scale, 0.05 is 5.  A product or quotient is rounded to  *)
(* the nearest unit, as an f32 operation rounds to the nearest float.      *)
(* Angles are whole degrees.  transform.rotation is kept as the pair       *)
(* (yaw, pitch) of the rotation Ry(yaw) * Rx(pitch): setup builds such a   *)
(* rotation (looking_at with up = Y has no roll), and the only updates are *)
(* a yaw multiplied on the left and a pitch multiplied on the right.       *)
(***************************************************************************)
EXTENDS Integers, Sequences, FiniteSets, TLC

\* ------------------------------------------------------------------ bounds
\* Frames that deliver input (events or a button transition).
MaxInputFrames == 2
\* Frames that deliver input, in the specification with fairness.
MaxLiveInputFrames == 1

\* ------------------------------------------------------- numeric constants
Scale == 100
LERP == 10
SENSITIVITY == 200
THRESHOLD == 50
ZOOM_RATE == 5
MIN_RADIUS == 5
NumCameras == 1

\* ------------------------------------------------------------- arithmetic
Abs(x) == IF x < 0 THEN -x ELSE x

\* a / b rounded to the nearest integer (b > 0), halves away from zero.
RoundDiv(a, b) ==
    IF a >= 0 THEN (2 * a + b) \div (2 * b) ELSE -((2 * (-a) + b) \div (2 * b))

FMul(a, b) == RoundDiv(a * b, Scale)
FDiv(a, b) == RoundDiv(a * Scale, b)
FMax(a, b) == IF a >= b THEN a ELSE b

V2Zero == <<0, 0>>
V2Add(u, v) == <<u[1] + v[1], u[2] + v[2]>>
V2Sub(u, v) == <<u[1] - v[1], u[2] - v[2]>>
V2Scale(k, v) == <<FMul(k, v[1]), FMul(k, v[2])>>
\* |v|^2 in units of 1/Scale^2 (exact)
LengthSquared(v) == v[1] * v[1] + v[2] * v[2]

V3Zero == <<0, 0, 0>>
V3Add(u, v) == <<u[1] + v[1], u[2] + v[2], u[3] + v[3]>>
V3Scale(v, k) == <<FMul(v[1], k), FMul(v[2], k), FMul(v[3], k)>>

\* sine of a whole number of degrees, in units of 1/Scale
\* (Bhaskara's rational approximation; exact at 0, 30, 90, 150, 180).
SinHalfTurn(x) == RoundDiv(Scale * 4 * x * (180 - x), 40500 - x * (180 - x))
Sin(d) ==
    LET x == d % 360
    IN  IF x <= 180 THEN SinHalfTurn(x) ELSE -SinHalfTurn(x - 180)
Cos(d) == Sin(d + 90)

\* transform.rotation * Vec3::X, * Vec3::Y, * Vec3::Z for Ry(yaw) * Rx(pitch)
RotX(r) == <<Cos(r.yaw), 0, -Sin(r.yaw)>>
RotY(r) == <<FMul(Sin(r.yaw), Sin(r.pitch)), Cos(r.pitch), FMul(Cos(r.yaw), Sin(r.pitch))>>
RotZ(r) == <<FMul(Sin(r.yaw), Cos(r.pitch)), -Sin(r.pitch), FMul(Cos(r.yaw), Cos(r.pitch))>>

RECURSIVE SumV2(_)
SumV2(s) == IF s = <<>> THEN V2Zero ELSE V2Add(Head(s), SumV2(Tail(s)))

RECURSIVE Sum(_)
Sum(s) == IF s = <<>> THEN 0 ELSE Head(s) + Sum(Tail(s))


\* ------------------------------------------------------------------ inputs
Cameras == 1 .. NumCameras
orbit_button == "Right"
pan_button == "Middle"

\* what the windowing layer can deliver in one frame: button transitions with
\* or without pointer motion, or scroll events with or without pointer motion
MotionChoices == { <<>>, << <<100, 100>>, <<-50, 0>> >> }
ScrollChoices == { <<200, -100>>, <<10000>>, <<-200>> }
FrameInputs ==
    [ toggled : SUBSET {orbit_button, pan_button},
      motion : MotionChoices,
      scroll : {<<>>} ]
    \cup
    [ toggled : {{}},
      motion : MotionChoices,
      scroll : ScrollChoices ]
\* every combination of button transitions, motion and scroll
AllFrameInputs ==
    [ toggled : SUBSET {orbit_button, pan_button},
      motion : MotionChoices,
      scroll : ScrollChoices \cup {<<>>} ]
NoInput == [toggled |-> {}, motion |-> <<>>, scroll |-> <<>>]

\* the primary window, when there is one
PrimaryWindowSize == <<4 * Scale, 3 * Scale>>
\* Projection of the spawned Camera3dBundle: perspective, fov pi/4, aspect 4/3
CameraProjection == [perspective |-> TRUE, fov |-> 79, aspect_ratio |-> 133]

\* -------------------------------------------------------------------- state
VARIABLES
    camera,        \* [Cameras -> PanOrbitCamera]
    transform,     \* [Cameras -> [translation, rotation]]
    input_mouse,   \* ButtonInput<MouseButton>: pressed, just_pressed, just_released
    ev_motion,     \* Events<MouseMotion>: two buffers and the count of events sent
    motion_cursor, \* the EventReader<MouseMotion> of the accumulator
    ev_scroll,     \* Events<MouseWheel>
    scroll_cursor, \* the EventReader<MouseWheel> of the accumulator
    window,        \* TRUE while a primary window exists
    phase,         \* "input": between frames; "update": the Update schedule runs
    ran,           \* the systems of the Update schedule that ran this frame, in order
    crashed,       \* a system panicked: the app is gone
    inputFrames,   \* frames that delivered input so far
    frameIn,       \* history: the input of the current frame
    frameStart,    \* history: camera and transform when the current frame began
    motionUses,    \* history: event id -> times its delta was added to a pending field
    scrollUses,    \* history: event id -> times its y was added to pending scroll
    idleMotion     \* history: ids of motion events delivered with neither button held

vars ==
    << camera, transform, input_mouse, ev_motion, motion_cursor, ev_scroll,
       scroll_cursor, window, phase, ran, crashed, inputFrames, frameIn,
       frameStart, motionUses, scrollUses, idleMotion >>

\* impl Default for PanOrbitCamera
DefaultPanOrbitCamera ==
    [ focus |-> V3Zero, radius |-> 5 * Scale, upside_down |-> FALSE,
      pan |-> V2Zero, rotation_move |-> V2Zero, scroll |-> 0,
      orbit_button_changed |-> FALSE ]

\* setup: translation (1, 2, 2) looking at the origin; radius = |translation| = 3
SetupCamera ==
    [DefaultPanOrbitCamera EXCEPT !.focus = V3Zero, !.radius = 3 * Scale]
SetupTransform ==
    [ translation |-> <<1 * Scale, 2 * Scale, 2 * Scale>>,
      rotation |-> [yaw |-> 27, pitch |-> -42] ]

EmptyEvents == [a |-> <<>>, b |-> <<>>, count |-> 0]

Init ==
    /\ camera = [i \in Cameras |-> SetupCamera]
    /\ transform = [i \in Cameras |-> SetupTransform]
    /\ input_mouse = [pressed |-> {}, just_pressed |-> {}, just_released |-> {}]
    /\ ev_motion = EmptyEvents
    /\ motion_cursor = 0
    /\ ev_scroll = EmptyEvents
    /\ scroll_cursor = 0
    /\ window = TRUE
    /\ phase = "input"
    /\ ran = <<>>
    /\ crashed = FALSE
    /\ inputFrames = 0
    /\ frameIn = NoInput
    /\ frameStart = [camera |-> camera, transform |-> transform]
    /\ motionUses = <<>>
    /\ scrollUses = <<>>
    /\ idleMotion = {}

\* ------------------------------------------------- the engine's event queue
\* Events::update: the older buffer is dropped, the newer becomes the older.
EventsUpdate(ev) == [ev EXCEPT !.a = ev.b, !.b = <<>>]

\* Events::send for each payload in turn: ids are count, count + 1, ...
EventsSendAll(ev, payloads) ==
    [ev EXCEPT
        !.b = ev.b \o [k \in 1 .. Len(payloads) |->
                         [id |-> ev.count + k - 1, data |-> payloads[k]]],
        !.count = ev.count + Len(payloads)]

\* EventReader::read: the events of both buffers the reader has not seen yet
EventsUnread(ev, cursor) ==
    SelectSeq(ev.a \o ev.b, LAMBDA e : e.id >= cursor)

Payloads(events) == [k \in 1 .. Len(events) |-> events[k].data]
Ids(events) == {events[k].id : k \in 1 .. Len(events)}

\* ButtonInput after the frame's press/release events: the just_* sets are
\* cleared, then every toggled button is pressed or released.
ButtonInputAfter(bi, toggled) ==
    [ pressed |-> (bi.pressed \ toggled) \cup (toggled \ bi.pressed),
      just_pressed |-> toggled \ bi.pressed,
      just_released |-> toggled \cap bi.pressed ]


\* ------------------------------------------ accumulate_mouse_events_system
\* Variant: the pan branch is not an else branch.
RoutedMotionBoth(pressed, deltas) ==
    [ rotation_move |-> IF orbit_button \in pressed THEN SumV2(deltas) ELSE V2Zero,
      pan |-> IF pan_button \in pressed THEN SumV2(deltas) ELSE V2Zero,
      read |-> pressed \cap {orbit_button, pan_button} # {} ]

\* camera.rs 52-61: the frame's motion deltas go to one bucket, orbit first
RoutedMotion(pressed, deltas) ==
    IF orbit_button \in pressed
    THEN [rotation_move |-> SumV2(deltas), pan |-> V2Zero, read |-> TRUE]
    ELSE IF pan_button \in pressed
         THEN [rotation_move |-> V2Zero, pan |-> SumV2(deltas), read |-> TRUE]
         ELSE [rotation_move |-> V2Zero, pan |-> V2Zero, read |-> FALSE]

\* camera.rs 65-67
OrbitButtonChanged(bi) ==
    orbit_button \in bi.just_released \/ orbit_button \in bi.just_pressed

\* Variant: the deltas are added without the factor 2.
AccumulateCameraUnscaled(cam, rotation_move, pan, scroll, changed) ==
    [cam EXCEPT
        !.orbit_button_changed = cam.orbit_button_changed \/ changed,
        !.pan = V2Add(cam.pan, pan),
        !.rotation_move = V2Add(cam.rotation_move, rotation_move),
        !.scroll = cam.scroll + scroll]

\* camera.rs 69-74: the body of the loop over the cameras
AccumulateCamera(cam, rotation_move, pan, scroll, changed) ==
    [cam EXCEPT
        !.orbit_button_changed = cam.orbit_button_changed \/ changed,
        !.pan = V2Add(cam.pan, V2Scale(SENSITIVITY, pan)),
        !.rotation_move = V2Add(cam.rotation_move, V2Scale(SENSITIVITY, rotation_move)),
        !.scroll = cam.scroll + FMul(SENSITIVITY, scroll)]

\* Variant: without ev_motion.clear() the reader moves only when it read.
MotionCursorNoClear(ev, cursor, read) == IF read THEN ev.count ELSE cursor

\* camera.rs 76: ev_motion.clear() moves the reader past every event sent
MotionCursorAfter(ev, cursor, read) == ev.count

\* history: one more use for every id in ids
CountUses(uses, ids) ==
    [k \in 1 .. Len(uses) |-> IF (k - 1) \in ids THEN uses[k] + 1 ELSE uses[k]]

AccumulateMouseEvents ==
    LET unreadMotion == EventsUnread(ev_motion, motion_cursor)
        unreadScroll == EventsUnread(ev_scroll, scroll_cursor)
        routed == RoutedMotion(input_mouse.pressed, Payloads(unreadMotion))
        scroll == Sum(Payloads(unreadScroll))
        changed == OrbitButtonChanged(input_mouse)
    IN  /\ camera' = [i \in Cameras |->
                        AccumulateCamera(camera[i], routed.rotation_move,
                                         routed.pan, scroll, changed)]
        /\ motion_cursor' = MotionCursorAfter(ev_motion, motion_cursor, routed.read)
        /\ scroll_cursor' = ev_scroll.count
        /\ motionUses' = IF routed.read
                         THEN CountUses(motionUses, Ids(unreadMotion))
                         ELSE motionUses
        /\ scrollUses' = CountUses(scrollUses, Ids(unreadScroll))
        /\ UNCHANGED <<transform, crashed>>

\* --------------------------------------------------- update_camera_system
\* Each step maps a record [cam, tr, any, panicked]; a step after a panic
\* does not run.

\* camera.rs 85-92
FlipCheck(st) ==
    IF st.cam.orbit_button_changed
    THEN [st EXCEPT
            !.cam.upside_down = (RotY(st.tr.rotation)[2] <= 0),
            !.cam.orbit_button_changed = FALSE]
    ELSE st

\* Variants: a gate that lets any non-zero pending value through.
RotationActiveAny(cam) == cam.rotation_move # V2Zero
ZoomActiveAny(cam) == cam.scroll # 0

\* camera.rs 95, 112, 129: the three gates
RotationActive(cam) == LengthSquared(cam.rotation_move) > THRESHOLD * Scale
PanActive(cam) == LengthSquared(cam.pan) > THRESHOLD * Scale
ZoomActive(cam) == Abs(cam.scroll) > THRESHOLD

\* Variant: the whole pending value is applied at once.
AppliedAll(p) == p

\* camera.rs 97, 114, 132: the part of a pending value applied this frame
Applied(p) == FMul(p, LERP)
AppliedV2(v) == <<Applied(v[1]), Applied(v[2])>>

\* camera.rs 95-110; get_primary_window_size panics when no window exists
RotationStep(st, win) ==
    IF st.panicked \/ ~RotationActive(st.cam) THEN st
    ELSE
      LET rotation_move == AppliedV2(st.cam.rotation_move)
          damped == [st EXCEPT
                        !.any = TRUE,
                        !.cam.rotation_move = V2Sub(st.cam.rotation_move, rotation_move)]
      IN  IF ~win THEN [damped EXCEPT !.panicked = TRUE]
          ELSE
            LET delta == RoundDiv(rotation_move[1] * 360, PrimaryWindowSize[1])
                delta_x == IF st.cam.upside_down THEN -delta ELSE delta
                delta_y == RoundDiv(rotation_move[2] * 180, PrimaryWindowSize[2])
            IN  [damped EXCEPT
                    !.tr.rotation.yaw = st.tr.rotation.yaw - delta_x,
                    !.tr.rotation.pitch = st.tr.rotation.pitch - delta_y]

\* camera.rs 112-127
PanStep(st, win, projection) ==
    IF st.panicked \/ ~PanActive(st.cam) THEN st
    ELSE
      LET pan0 == AppliedV2(st.cam.pan)
          damped == [st EXCEPT
                        !.any = TRUE,
                        !.cam.pan = V2Sub(st.cam.pan, pan0)]
      IN  IF ~win THEN [damped EXCEPT !.panicked = TRUE]
          ELSE
            LET pan == IF projection.perspective
                       THEN << FMul(pan0[1],
                                    FDiv(FMul(projection.fov, projection.aspect_ratio),
                                         PrimaryWindowSize[1])),
                               FMul(pan0[2], FDiv(projection.fov, PrimaryWindowSize[2])) >>
                       ELSE pan0
                right == V3Scale(RotX(st.tr.rotation), -pan[1])
                up == V3Scale(RotY(st.tr.rotation), pan[2])
                translation == V3Scale(V3Add(right, up), st.cam.radius)
            IN  [damped EXCEPT !.cam.focus = V3Add(st.cam.focus, translation)]

\* Variant: no floor.
NoClamp(r) == r

\* camera.rs 136
ClampRadius(r) == FMax(r, MIN_RADIUS)

\* camera.rs 129-137
ZoomStep(st) ==
    IF st.panicked \/ ~ZoomActive(st.cam) THEN st
    ELSE
      LET scroll == Applied(st.cam.scroll)
      IN  [st EXCEPT
              !.any = TRUE,
              !.cam.scroll = st.cam.scroll - scroll,
              !.cam.radius =
                  ClampRadius(st.cam.radius
                              - FMul(FMul(scroll, st.cam.radius), ZOOM_RATE))]

\* camera.rs 139-145
Synthesis(st) ==
    IF st.panicked \/ ~st.any THEN st
    ELSE [st EXCEPT
            !.tr.translation =
                V3Add(st.cam.focus, V3Scale(RotZ(st.tr.rotation), st.cam.radius))]

\* the single element of a one-element set
TheOne(S) == CHOOSE x \in S : TRUE

\* Variant: the zoom step runs before the rotation and pan steps.
UpdateCameraZoomFirst(cam, tr, win, projection) ==
    TheOne({ Synthesis(s4) :
        s4 \in { PanStep(s3, win, projection) :
            s3 \in { RotationStep(s2, win) :
                s2 \in { ZoomStep(s1) :
                    s1 \in { FlipCheck([cam |-> cam, tr |-> tr,
                                        any |-> FALSE, panicked |-> FALSE]) } } } } })

\* camera.rs 84-146: the body of the loop, for one camera: the five steps in
\* the order of the source, each on the result of the one before
UpdateCamera(cam, tr, win, projection) ==
    TheOne({ Synthesis(s4) :
        s4 \in { ZoomStep(s3) :
            s3 \in { PanStep(s2, win, projection) :
                s2 \in { RotationStep(s1, win) :
                    s1 \in { FlipCheck([cam |-> cam, tr |-> tr,
                                        any |-> FALSE, panicked |-> FALSE]) } } } } })

\* camera.rs 80-151: the cameras in query order; a panic ends the system and
\* leaves the cameras after the panicking one untouched
UpdateCameraSystem ==
    \E res \in {[i \in Cameras |->
                   UpdateCamera(camera[i], transform[i], window, CameraProjection)]} :
      LET panicking == {i \in Cameras : res[i].panicked}
          reached(i) == \A j \in panicking : i <= j
      IN  /\ camera' = [i \in Cameras |-> IF reached(i) THEN res[i].cam ELSE camera[i]]
          /\ transform' = [i \in Cameras |-> IF reached(i) THEN res[i].tr ELSE transform[i]]
          /\ crashed' = (panicking # {})
          /\ UNCHANGED <<motion_cursor, scroll_cursor, motionUses, scrollUses>>

\* ----------------------------------------------------------------- frames
\* The windowing layer delivers the frame's input, then the Update schedule
\* starts.  A frame with input counts against MaxInputFrames.
BeginFrame(in) ==
    /\ phase = "input"
    /\ ~crashed
    /\ in # NoInput => inputFrames < MaxInputFrames
    /\ inputFrames' = IF in = NoInput THEN inputFrames ELSE inputFrames + 1
    /\ input_mouse' = ButtonInputAfter(input_mouse, in.toggled)
    /\ ev_motion' = EventsSendAll(EventsUpdate(ev_motion), in.motion)
    /\ ev_scroll' = EventsSendAll(EventsUpdate(ev_scroll), in.scroll)
    /\ motionUses' = motionUses \o [k \in 1 .. Len(in.motion) |-> 0]
    /\ scrollUses' = scrollUses \o [k \in 1 .. Len(in.scroll) |-> 0]
    /\ idleMotion' =
          IF input_mouse'.pressed \cap {orbit_button, pan_button} = {}
          THEN idleMotion \cup (ev_motion.count .. ev_motion'.count - 1)
          ELSE idleMotion
    /\ frameIn' = in
    /\ frameStart' = [camera |-> camera, transform |-> transform]
    /\ phase' = "update"
    /\ ran' = <<>>
    /\ UNCHANGED <<camera, transform, motion_cursor, scroll_cursor, window, crashed>>

Frame == \E in \in FrameInputs : BeginFrame(in)

\* main.rs 30: the two systems are added to Update as a plain tuple, with no
\* ordering between them: the schedule runs each once per frame, one after the
\* other (both write PanOrbitCamera), in an order it is free to choose.
SystemDone(name) ==
    /\ ran' = Append(ran, name)
    /\ phase' = IF crashed' \/ Len(ran') = 2 THEN "input" ELSE "update"
    /\ UNCHANGED <<input_mouse, ev_motion, ev_scroll, window, inputFrames,
                   frameIn, frameStart, idleMotion>>

ScheduleAllows(name) ==
    /\ phase = "update"
    /\ ~crashed
    /\ \A k \in 1 .. Len(ran) : ran[k] # name

RunAccumulate ==
    /\ ScheduleAllows("accumulate")
    /\ AccumulateMouseEvents
    /\ SystemDone("accumulate")

RunUpdate ==
    /\ ScheduleAllows("update")
    /\ UpdateCameraSystem
    /\ SystemDone("update")

\* the user closes the primary window
ClosePrimaryWindow ==
    /\ phase = "input"
    /\ ~crashed
    /\ window
    /\ window' = FALSE
    /\ UNCHANGED <<camera, transform, input_mouse, ev_motion, motion_cursor,
                   ev_scroll, scroll_cursor, phase, ran, crashed, inputFrames,
                   frameIn, frameStart, motionUses, scrollUses, idleMotion>>

Next == Frame \/ RunAccumulate \/ RunUpdate \/ ClosePrimaryWindow

Spec == Init /\ [][Next]_vars


\* ------------------------------------------------------------ properties
\* the step just taken is a run of the named system
AccumulatorRuns == phase = "update" /\ ran' = Append(ran, "accumulate")
IntegratorRuns == phase = "update" /\ ran' = Append(ran, "update")
LastRan == IF ran = <<>> THEN "none" ELSE ran[Len(ran)]

\* the thresholds, stated on the pending values themselves
RotationAbove(cam) == LengthSquared(cam.rotation_move) * 2 > Scale * Scale
PanAbove(cam) == LengthSquared(cam.pan) * 2 > Scale * Scale
ScrollAbove(cam) == Abs(cam.scroll) * 2 > Scale
NoneAbove(cam) == ~RotationAbove(cam) /\ ~PanAbove(cam) /\ ~ScrollAbove(cam)

\* new is 0.9 * old, to the rounding of one multiplication (half a unit)
NineTenths(old, new) == Abs(10 * new - 9 * old) <= 5

\* C1: a run of accumulate_mouse_events_system adds to every camera exactly
\* twice the frame's summed motion deltas to pending rotation when the orbit
\* button is held, else to pending pan when the pan button is held, else to
\* neither; twice the frame's summed scroll to pending scroll in every case;
\* and never a non-zero amount to both pending rotation and pending pan.
C1_AccumulatorRouting ==
    [][ AccumulatorRuns =>
          LET motion == SumV2(frameIn.motion)
              twice == <<2 * motion[1], 2 * motion[2]>>
              orbit == orbit_button \in input_mouse.pressed
              panning == ~orbit /\ pan_button \in input_mouse.pressed
          IN  \A i \in Cameras :
                LET rot == V2Sub(camera'[i].rotation_move, camera[i].rotation_move)
                    pan == V2Sub(camera'[i].pan, camera[i].pan)
                IN  /\ rot = (IF orbit THEN twice ELSE V2Zero)
                    /\ pan = (IF panning THEN twice ELSE V2Zero)
                    /\ camera'[i].scroll - camera[i].scroll = 2 * Sum(frameIn.scroll)
                    /\ rot = V2Zero \/ pan = V2Zero
      ]_vars

\* The accumulator has run in a frame that delivered motion with both buttons
\* held, and the motion went to pending rotation.
C1_Witness ==
    /\ LastRan = "accumulate"
    /\ {orbit_button, pan_button} \subseteq input_mouse.pressed
    /\ frameIn.motion # <<>>
    /\ \E i \in Cameras :
          /\ camera[i].rotation_move # V2Zero
          /\ camera[i].pan = V2Zero

\* C2: a run of update_camera_system that completes leaves each pending field
\* that was above its threshold at 0.9 of its value, never at zero, and each
\* pending field at or below its threshold unchanged.
C2_FixedRatioDamping ==
    [][ (IntegratorRuns /\ ~crashed') =>
          \A i \in Cameras :
            LET old == camera[i]
                new == camera'[i]
            IN  /\ IF RotationAbove(old)
                   THEN /\ NineTenths(old.rotation_move[1], new.rotation_move[1])
                        /\ NineTenths(old.rotation_move[2], new.rotation_move[2])
                        /\ new.rotation_move # V2Zero
                   ELSE new.rotation_move = old.rotation_move
                /\ IF PanAbove(old)
                   THEN /\ NineTenths(old.pan[1], new.pan[1])
                        /\ NineTenths(old.pan[2], new.pan[2])
                        /\ new.pan # V2Zero
                   ELSE new.pan = old.pan
                /\ IF ScrollAbove(old)
                   THEN NineTenths(old.scroll, new.scroll) /\ new.scroll # 0
                   ELSE new.scroll = old.scroll
      ]_vars

\* The integrator has just damped pending scroll from 2.0 to 1.8 while a
\* non-zero pending rotation at or below the threshold was left alone.
C2_Witness ==
    /\ LastRan = "update"
    /\ ~crashed
    /\ \E i \in Cameras :
          /\ camera[i].scroll = 180
          /\ camera[i].rotation_move # V2Zero
          /\ ~RotationAbove(camera[i])

\* C3: in every frame the accumulator runs before the integrator.
C3_AccumulatorBeforeIntegrator ==
    ran # <<>> => ran[1] = "accumulate"

\* C4: radius never drops below the floor of 0.05.
C4_RadiusFloor ==
    \A i \in Cameras : camera[i].radius * 20 >= Scale

\* A zoom step has clamped the radius to the floor.
C4_Witness ==
    /\ LastRan = "update"
    /\ \E i \in Cameras :
          /\ camera[i].radius * 20 = Scale
          /\ frameStart.camera[i].radius * 20 > Scale

\* C5: upside_down changes only in a frame in which the orbit button was
\* pressed or released.
C5_FlipOnlyOnTransitionFrame ==
    [][ (\E i \in Cameras : camera'[i].upside_down # camera[i].upside_down)
          => orbit_button \in frameIn.toggled ]_vars


\* The specification of normal operation: the primary window stays open and
\* the app runner keeps running frames.
LiveFrame ==
    \E in \in AllFrameInputs : BeginFrame(in) /\ inputFrames' <= MaxLiveInputFrames
LiveNext == LiveFrame \/ RunAccumulate \/ RunUpdate
LiveSpec == Init /\ [][LiveNext]_vars /\ WF_vars(LiveNext)

InputAbsent == frameIn = NoInput
AllSettled == \A i \in DOMAIN camera : NoneAbove(camera[i])

\* C6: while frames deliver no input, no pending magnitude grows, an
\* integrator run lowers every pending magnitude that is above its threshold,
\* and a camera whose three pending values are at or below their thresholds keeps
\* its transform, focus and radius; and if input stays absent, all three
\* pending values of every camera end at or below their thresholds for good.
C6_QuietDecay ==
    /\ [][ (frameIn = NoInput /\ frameIn' = NoInput) =>
             \A i \in Cameras :
               /\ LengthSquared(camera'[i].rotation_move)
                     <= LengthSquared(camera[i].rotation_move)
               /\ LengthSquared(camera'[i].pan) <= LengthSquared(camera[i].pan)
               /\ Abs(camera'[i].scroll) <= Abs(camera[i].scroll)
               /\ (IntegratorRuns /\ RotationAbove(camera[i])) =>
                     LengthSquared(camera'[i].rotation_move)
                        < LengthSquared(camera[i].rotation_move)
               /\ (IntegratorRuns /\ PanAbove(camera[i])) =>
                     LengthSquared(camera'[i].pan) < LengthSquared(camera[i].pan)
               /\ (IntegratorRuns /\ ScrollAbove(camera[i])) =>
                     Abs(camera'[i].scroll) < Abs(camera[i].scroll)
               /\ NoneAbove(camera[i]) =>
                     /\ transform'[i] = transform[i]
                     /\ camera'[i].focus = camera[i].focus
                     /\ camera'[i].radius = camera[i].radius
         ]_vars
    /\ (<>[]InputAbsent) => <>[]AllSettled

\* A frame without input has run both systems and found a camera settled,
\* with something left in each of pending rotation and pending scroll, after
\* input had moved the camera.
C6_Witness ==
    /\ frameIn = NoInput
    /\ Len(ran) = 2
    /\ inputFrames > 0
    /\ \E i \in Cameras :
          /\ NoneAbove(frameStart.camera[i])
          /\ camera[i].rotation_move # V2Zero
          /\ camera[i].scroll # 0
          /\ transform[i] # SetupTransform

\* C7: a run of update_camera_system that finds a camera with no pending
\* value above its threshold leaves that camera's transform unchanged, also
\* when it re-evaluates upside_down.
C7_InactiveRunKeepsTransform ==
    [][ IntegratorRuns =>
          \A i \in Cameras : NoneAbove(camera[i]) => transform'[i] = transform[i]
      ]_vars

\* The integrator ran first in a frame, found nothing above threshold, and
\* the orientation-flip check changed upside_down.
C7_Witness ==
    /\ ran = <<"update">>
    /\ \E i \in Cameras :
          /\ NoneAbove(frameStart.camera[i])
          /\ camera[i].upside_down # frameStart.camera[i].upside_down
          /\ transform[i] = frameStart.transform[i]

\* C8 as claimed: a run of update_camera_system without a primary window
\* changes no camera's focus, radius, transform or pending fields.
C8_NoWindowNoChange ==
    [][ (IntegratorRuns /\ ~window) =>
          \A i \in Cameras :
            /\ transform'[i] = transform[i]
            /\ camera'[i].focus = camera[i].focus
            /\ camera'[i].radius = camera[i].radius
            /\ camera'[i].rotation_move = camera[i].rotation_move
            /\ camera'[i].pan = camera[i].pan
            /\ camera'[i].scroll = camera[i].scroll
      ]_vars

\* C8 amended: a run of update_camera_system without a primary window aborts
\* exactly when some camera has pending rotation or pending pan above the
\* threshold; the first such camera keeps its focus, radius, transform and
\* pending scroll, and of pending rotation and pending pan only the one whose
\* step aborted has been damped.
C8_AbortOnlyInRotationOrPan ==
    [][ (IntegratorRuns /\ ~window) =>
          LET needs == {i \in Cameras : RotationAbove(camera[i]) \/ PanAbove(camera[i])}
          IN  /\ crashed' <=> needs # {}
              /\ \A i \in needs :
                    (\A j \in needs : i <= j) =>
                       /\ transform'[i] = transform[i]
                       /\ camera'[i].focus = camera[i].focus
                       /\ camera'[i].radius = camera[i].radius
                       /\ camera'[i].scroll = camera[i].scroll
                       /\ IF RotationAbove(camera[i])
                          THEN /\ camera'[i].rotation_move # camera[i].rotation_move
                               /\ camera'[i].pan = camera[i].pan
                          ELSE /\ camera'[i].rotation_move = camera[i].rotation_move
                               /\ camera'[i].pan # camera[i].pan
      ]_vars

\* The integrator aborted in the pan step without a window, with a zoom
\* pending that it never reached.
C8_Witness ==
    /\ crashed
    /\ ~window
    /\ \E i \in Cameras :
          /\ ScrollAbove(camera[i])
          /\ ~RotationAbove(camera[i])
          /\ PanAbove(camera[i])

\* C9: no motion or scroll event is added to a pending field more than once;
\* a motion event delivered while neither button is held is never added; and
\* once the accumulator has run in a frame its motion reader has nothing
\* left to read.
C9_EventsUsedAtMostOnce ==
    /\ \A k \in 1 .. Len(motionUses) : motionUses[k] <= 1
    /\ \A k \in 1 .. Len(scrollUses) : scrollUses[k] <= 1
    /\ \A id \in idleMotion : motionUses[id + 1] = 0
    /\ (\E k \in 1 .. Len(ran) : ran[k] = "accumulate")
          => EventsUnread(ev_motion, motion_cursor) = <<>>

\* Motion arrived with no button held; in the next input frame the orbit
\* button is down, new motion arrived and the accumulator has added it.
C9_Witness ==
    /\ LastRan = "accumulate"
    /\ idleMotion # {}
    /\ orbit_button \in input_mouse.just_pressed
    /\ frameIn.motion # <<>>
    /\ \E k \in 1 .. Len(motionUses) : motionUses[k] = 1
    /\ Len(ev_motion.a) > 0

\* the radius lost in a step is the factor (in hundredths) times r * 0.05,
\* to one unit of rounding
RadiusDropIs(hundredths, r, rAfter) ==
    Abs(2000 * (r - rAfter) - hundredths * r) <= 2000

\* C10 as claimed: a frame that starts with no pending scroll and delivers a
\* total scroll of +1.0 ends with pending scroll 1.8 and with the radius
\* lowered by 0.1 * r * 0.05.
C10_ScrollScenario ==
    (phase = "input" /\ Len(ran) = 2 /\ ~crashed /\ Sum(frameIn.scroll) = Scale) =>
        \A i \in Cameras :
          LET r == frameStart.camera[i].radius
          IN  (frameStart.camera[i].scroll = 0 /\ r >= 2 * MIN_RADIUS) =>
                 /\ camera[i].scroll = 180
                 /\ RadiusDropIs(10, r, camera[i].radius)

\* C10 amended: an accumulator run that finds no pending scroll in a frame
\* with a total scroll of +1.0 leaves pending scroll at 2.0; an integrator
\* run that finds pending scroll at 2.0 (and completes) applies 0.2, leaves
\* pending scroll at 1.8 and lowers the radius by 0.2 * r * 0.05.
C10_ScrollScenarioAmended ==
    [][ /\ (AccumulatorRuns /\ Sum(frameIn.scroll) = Scale) =>
              \A i \in Cameras :
                camera[i].scroll = 0 => camera'[i].scroll = 2 * Scale
        /\ (IntegratorRuns /\ ~crashed') =>
              \A i \in Cameras :
                (camera[i].scroll = 2 * Scale /\ camera[i].radius >= 2 * MIN_RADIUS) =>
                   /\ camera[i].scroll - camera'[i].scroll = 20
                   /\ camera'[i].scroll = 180
                   /\ RadiusDropIs(20, camera[i].radius, camera'[i].radius)
      ]_vars

\* The scenario's frame, accumulator first: pending scroll went 0, 2.0, 1.8
\* and the radius went from 3.00 to 2.97.
C10_Witness ==
    /\ ran = <<"accumulate", "update">>
    /\ Sum(frameIn.scroll) = Scale
    /\ \E i \in Cameras :
          /\ frameStart.camera[i].scroll = 0
          /\ frameStart.camera[i].radius = 3 * Scale
          /\ camera[i].scroll = 180
          /\ camera[i].radius = 297

====
